---- MODULE Spec2Model ----
(***************************************************************************)
(* A model of the Tantra admin console (src/app.py): the document store,   *)
(* the add_event handler with its scan-then-write id assignment, the       *)
(* participant resolver, the registration gatherer, the participant        *)
(* listings, the export endpoint, the dashboard counts, and the handlers   *)
(* that toggle, reassign and list events.                                  *)
(*                                                                         *)
(* Strings are sequences of one-character strings, so that lower-casing,   *)
(* stripping, the regular expression of _sanitize, int() and str() are     *)
(* computed and not assumed.  A collection is a function from document ids *)
(* to documents; a document is a function from field names to values.      *)
(* Python's None is the one-element sequence None below, which is no       *)
(* string over the alphabet.                                               *)
(***************************************************************************)
EXTENDS Integers, Sequences, FiniteSets, TLC

VARIABLES
    events,         \* collection 'events': doc id -> document
    departments,    \* collection 'departments'
    participants,   \* collection 'participants'
    users,          \* collection 'users'
    registrations,  \* collection 'registrations'
    installed,      \* the optional libraries the deployment can import
    now,            \* the clock datetime.utcnow() reads, in handler steps
    reqs,           \* add_event requests in flight: their locals
    resp            \* the response of the last handler that ran

vars == <<events, departments, participants, users, registrations,
          installed, now, reqs, resp>>

store == <<events, departments, participants, users, registrations>>

(***************************************************************************)
(* Bounds of the model.                                                    *)
(***************************************************************************)
NumRequests == 2      \* add_event requests that may overlap
MaxClock == 3         \* handler steps that write, per behaviour
MaxStrLen == 4        \* length of the strings handed to _sanitize
MaxDeptEvents == 21   \* events of the department _gather_participants lists
MaxRegs == 2          \* registration documents
MaxParts == 2         \* participant documents of a listing or of the dashboard
MaxAdded == 1         \* events added between toggles and reassignments

(***************************************************************************)
(* Characters and strings.                                                 *)
(***************************************************************************)
\* The characters of the model, in code-point order.
Digits == << "0", "1", "2", "3", "4", "5", "6", "7", "8", "9" >>

UpperLetters ==
    << "A", "B", "C", "D", "E", "F", "G", "H", "I", "J", "K", "L", "M",
       "N", "O", "P", "Q", "R", "S", "T", "U", "V", "W", "X", "Y", "Z" >>

LowerLetters ==
    << "a", "b", "c", "d", "e", "f", "g", "h", "i", "j", "k", "l", "m",
       "n", "o", "p", "q", "r", "s", "t", "u", "v", "w", "x", "y", "z" >>

Alphabet ==
    << " ", "&", "." >> \o Digits \o << "@" >> \o UpperLetters \o << "_" >> \o LowerLetters

Ord(c) == CHOOSE i \in 1..Len(Alphabet) : Alphabet[i] = c

IsDigit(c) == \E i \in 1..10 : Digits[i] = c

DigitVal(c) == (CHOOSE i \in 1..10 : Digits[i] = c) - 1

IsUpper(c) == \E i \in 1..Len(UpperLetters) : UpperLetters[i] = c

IsLowerLetter(c) == \E i \in 1..Len(LowerLetters) : LowerLetters[i] = c

\* str.lower() on one character
LowerChar(c) ==
    IF IsUpper(c)
    THEN LowerLetters[CHOOSE i \in 1..Len(UpperLetters) : UpperLetters[i] = c]
    ELSE c

\* str.lower()
Lower(s) == [i \in 1..Len(s) |-> LowerChar(s[i])]

IsSpace(c) == c = " "

RECURSIVE LStrip(_)
LStrip(s) ==
    IF s # <<>> /\ IsSpace(Head(s)) THEN LStrip(Tail(s)) ELSE s

RECURSIVE RStrip(_)
RStrip(s) ==
    IF s # <<>> /\ IsSpace(s[Len(s)])
    THEN RStrip(SubSeq(s, 1, Len(s) - 1))
    ELSE s

\* str.strip()
Strip(s) == RStrip(LStrip(s))

\* s < t for two strings, as Python and the store's ordering of document ids
\* compare them: character by character, a proper prefix first.
RECURSIVE StrLess(_, _)
StrLess(s, t) ==
    IF t = <<>> THEN FALSE
    ELSE IF s = <<>> THEN TRUE
    ELSE IF Head(s) # Head(t) THEN Ord(Head(s)) < Ord(Head(t))
    ELSE StrLess(Tail(s), Tail(t))

\* All strings over cs of length 0..n
RECURSIVE StringsUpTo(_, _)
StringsUpTo(cs, n) ==
    IF n = 0 THEN { <<>> }
    ELSE LET shorter == StringsUpTo(cs, n - 1)
         IN  shorter \cup { <<c>> \o s : c \in cs, s \in { x \in shorter : Len(x) = n - 1 } }

\* Python's None
None == << "None" >>

\* The truth value Python gives a string or None
Truthy(v) == v # None /\ v # <<>>

\* int(s): [ok |-> whether int() returns, val |-> its value]
RECURSIVE DigitsValue(_, _)
DigitsValue(s, acc) ==
    IF s = <<>> THEN acc
    ELSE DigitsValue(Tail(s), acc * 10 + DigitVal(Head(s)))

ParseInt(s) ==
    IF s # <<>> /\ \A i \in 1..Len(s) : IsDigit(s[i])
    THEN [ok |-> TRUE, val |-> DigitsValue(s, 0)]
    ELSE [ok |-> FALSE, val |-> 0]

\* str(n) for n >= 0
RECURSIVE Str(_)
Str(n) ==
    IF n < 10 THEN << Digits[n + 1] >>
    ELSE Str(n \div 10) \o << Digits[(n % 10) + 1] >>

(***************************************************************************)
(* Documents and collections.                                              *)
(***************************************************************************)
EmptyMap == [x \in {} |-> x]

\* dict.get(k, default)
Get(d, k, default) == IF k \in DOMAIN d THEN d[k] ELSE default

\* DocumentReference.set(doc): creates the document or replaces it whole
SetDoc(coll, id, doc) ==
    [x \in (DOMAIN coll) \cup {id} |-> IF x = id THEN doc ELSE coll[x]]

\* The least string of a non-empty set
MinStr(S) == CHOOSE s \in S : \A t \in S : t = s \/ StrLess(s, t)

\* The sorted sequence ids with one more id in its place
RECURSIVE InsertId(_, _)
InsertId(ids, id) ==
    IF ids = <<>> THEN << id >>
    ELSE IF StrLess(id, Head(ids)) THEN << id >> \o ids
    ELSE << Head(ids) >> \o InsertId(Tail(ids), id)

\* collection.stream(): the document ids, in the store's order (by id)
RECURSIVE SortedIds(_)
SortedIds(S) ==
    IF S = {} THEN <<>>
    ELSE LET x == CHOOSE y \in S : TRUE IN InsertId(SortedIds(S \ {x}), x)

Stream(coll) == SortedIds(DOMAIN coll)

(***************************************************************************)
(* add_event (POST): the id is one more than the highest numeric id seen.  *)
(***************************************************************************)
Requests == 1..NumRequests

DeptIds == { <<"d", "1">>, <<"d", "2">> }

EventNames == { <<"A">>, <<"B">> }

\* request.form of an add_event POST
Forms == [dept_id : DeptIds, name : EventNames, status : {0, 1}]

\* The loop of lines 254-262 over the streamed ids
RECURSIVE MaxIdLoop(_, _)
MaxIdLoop(ids, max_id) ==
    IF ids = <<>> THEN max_id
    ELSE LET p == ParseInt(Head(ids))
         IN  MaxIdLoop(Tail(ids),
                       IF p.ok /\ p.val > max_id THEN p.val ELSE max_id)

\* Variant: the number of documents taken for the highest id
MaxIdCount(evs) == Cardinality(DOMAIN evs)

MaxId(evs) == MaxIdLoop(Stream(evs), 0)

\* payment_qr_url: the department's qr_url, '' when there is no such department
PaymentQr(dept_id) ==
    IF dept_id \in DOMAIN departments
    THEN Get(departments[dept_id], "qr_url", <<>>)
    ELSE <<>>

\* The document add_event writes
EventDoc(new_id, form, qr, t) ==
    [id |-> new_id, department |-> form.dept_id, name |-> form.name,
     payment_qr_url |-> qr, status |-> form.status, created_at |-> t]

IdleReq ==
    [pc |-> "idle", form |-> EmptyMap, max_id |-> 0, seen |-> {}, qr |-> <<>>,
     new_id |-> 0, created_at |-> 0]

\* Variant: the id computed again from the collection at the time of the write
NewEventIdFresh(r) == MaxId(events) + 1

\* new_id = max_id + 1, from the request's own scan
NewEventId(r) == reqs[r].max_id + 1

\* add_event up to the end of its scan of the events collection
AddEventScan(r, form) ==
    /\ reqs[r].pc = "idle"
    /\ reqs' = [reqs EXCEPT ![r] =
                  [pc |-> "scanned", form |-> form, max_id |-> MaxId(events),
                   seen |-> DOMAIN events, qr |-> PaymentQr(form.dept_id),
                   new_id |-> 0, created_at |-> 0]]
    /\ UNCHANGED <<store, installed, now, resp>>

\* add_event from event_ref.set to its redirect
AddEventWrite(r) ==
    /\ reqs[r].pc = "scanned"
    /\ now < MaxClock
    /\ now' = now + 1
    /\ events' = SetDoc(events, Str(NewEventId(r)),
                        EventDoc(NewEventId(r), reqs[r].form, reqs[r].qr, now'))
    /\ reqs' = [reqs EXCEPT ![r].pc = "done", ![r].new_id = NewEventId(r),
                             ![r].created_at = now']
    /\ resp' = [handler |-> "add_event", status |-> 302]
    /\ UNCHANGED <<departments, participants, users, registrations, installed>>

\* An event document that add_event did not write
LegacyEvent(dept) ==
    [department |-> dept, name |-> <<"L">>, status |-> 1, created_at |-> 0]

\* Ids of documents the events collection may hold before the first request
SeedEventIds ==
    { <<"1">>, <<"2">>, <<"0", "7">>, <<"9">>, <<"a">>, <<"a", "1">>, <<"1", "0">> }

SeedDepartments ==
    [x \in { <<"d", "1">> } |-> [name |-> <<"C", "S">>, qr_url |-> <<"q">>]]

NoResp == [handler |-> "none", status |-> 0]

InitEvents ==
    /\ \E S \in SUBSET SeedEventIds :
          /\ Cardinality(S) <= 2
          /\ events = [x \in S |-> LegacyEvent(<<"d", "1">>)]
    /\ departments = SeedDepartments
    /\ participants = EmptyMap
    /\ users = EmptyMap
    /\ registrations = EmptyMap
    /\ installed = {}
    /\ now = 0
    /\ reqs = [r \in Requests |-> IdleReq]
    /\ resp = NoResp

Init == InitEvents

Next ==
    \/ \E r \in Requests, form \in Forms : AddEventScan(r, form)
    \/ \E r \in Requests : AddEventWrite(r)

\* add_event requests that may overlap
Spec == Init /\ [][Next]_vars

(***************************************************************************)
(* add_event, one request at a time.                                       *)
(***************************************************************************)
\* A whole add_event POST with no other request between its scan and its write
AddEvent(form) ==
    /\ now < MaxClock
    /\ now' = now + 1
    /\ LET new_id == MaxId(events) + 1
       IN  events' = SetDoc(events, Str(new_id),
                            EventDoc(new_id, form, PaymentQr(form.dept_id), now'))
    /\ resp' = [handler |-> "add_event", status |-> 302]
    /\ UNCHANGED <<departments, participants, users, registrations, installed, reqs>>

NextSerial == \E form \in Forms : AddEvent(form)

SpecSerial == InitEvents /\ [][NextSerial]_vars

(***************************************************************************)
(* _resolve_participant_from_registration.  The result is [found, doc,     *)
(* lookups]: found is FALSE for None, doc is the dict returned, lookups    *)
(* are the reads of the participants and users collections, in order.      *)
(***************************************************************************)
\* a or b
PyOr(a, b) == IF Truthy(a) THEN a ELSE b

NotFound(lookups) == [found |-> FALSE, doc |-> EmptyMap, lookups |-> lookups]

Found(doc, lookups) == [found |-> TRUE, doc |-> doc, lookups |-> lookups]

GetById(coll, id) == [coll |-> coll, by |-> "id", key |-> id]

WhereEmail(coll, email) == [coll |-> coll, by |-> "email", key |-> email]

\* Variant: the embedded participant never looked at
InlineParticipantNever(reg_data) == [has |-> FALSE, doc |-> EmptyMap]

\* inline = reg_data.get('participant'); inline and isinstance(inline, dict)
InlineParticipant(reg_data) ==
    IF "participant" \in DOMAIN reg_data /\ DOMAIN reg_data["participant"] # {}
    THEN [has |-> TRUE, doc |-> reg_data["participant"]]
    ELSE [has |-> FALSE, doc |-> EmptyMap]

\* Variant: user_id tried before participant_id
RegPidUserFirst(reg_data) ==
    PyOr(PyOr(Get(reg_data, "user_id", None), Get(reg_data, "participant_id", None)),
         Get(reg_data, "uid", None))

\* reg_data.get('participant_id') or reg_data.get('user_id') or reg_data.get('uid')
RegPid(reg_data) ==
    PyOr(PyOr(Get(reg_data, "participant_id", None), Get(reg_data, "user_id", None)),
         Get(reg_data, "uid", None))

\* reg_data.get('participant_email') or reg_data.get('email') or reg_data.get('user_email')
RegEmail(reg_data) ==
    PyOr(PyOr(Get(reg_data, "participant_email", None), Get(reg_data, "email", None)),
         Get(reg_data, "user_email", None))

\* where('email', '==', email).limit(1).stream(): the ids of the documents it yields
RECURSIVE FirstByEmail(_, _, _)
FirstByEmail(coll, ids, email) ==
    IF ids = <<>> THEN <<>>
    ELSE IF Get(coll[Head(ids)], "email", None) = email THEN << Head(ids) >>
    ELSE FirstByEmail(coll, Tail(ids), email)

\* Lines 324-334: the lookup by email, after the lookups done so far
ResolveByEmail(reg_data, parts, usrs, done) ==
    LET email == RegEmail(reg_data) IN
    IF ~Truthy(email) THEN NotFound(done)
    ELSE LET q  == FirstByEmail(parts, Stream(parts), email)
             l1 == Append(done, WhereEmail("participants", email))
         IN  IF q # <<>> THEN Found(parts[q[1]], l1)
             ELSE LET q2 == FirstByEmail(usrs, Stream(usrs), email)
                      l2 == Append(l1, WhereEmail("users", email))
                  IN  IF q2 # <<>> THEN Found(usrs[q2[1]], l2)
                      ELSE NotFound(l2)

\* Lines 312-322, then the lookup by email
ResolveById(reg_data, parts, usrs) ==
    LET pid == RegPid(reg_data) IN
    IF ~Truthy(pid) THEN ResolveByEmail(reg_data, parts, usrs, <<>>)
    ELSE LET l1 == << GetById("participants", pid) >>
             l2 == Append(l1, GetById("users", pid))
         IN  IF pid \in DOMAIN parts THEN Found(parts[pid], l1)
             ELSE IF pid \in DOMAIN usrs THEN Found(usrs[pid], l2)
             ELSE ResolveByEmail(reg_data, parts, usrs, l2)

ResolveParticipant(reg_data, parts, usrs) ==
    IF DOMAIN reg_data = {} THEN NotFound(<<>>)
    ELSE LET inline == InlineParticipant(reg_data)
         IN  IF inline.has THEN Found(inline.doc, <<>>)
             ELSE ResolveById(reg_data, parts, usrs)

(***************************************************************************)
(* The resolver on every registration record over a few ids and emails.    *)
(***************************************************************************)
K1 == << "p", "1" >>
K2 == << "p", "2" >>
E1 == << "a", "@", "x" >>
E2 == << "b", "@", "x" >>

\* The documents with field k, one per value, and the document without it
OptField(k, vals) == { EmptyMap } \cup { k :> v : v \in vals }

InlineDoc == [name |-> << "X" >>, email |-> E2]

\* Registration records: every combination of the fields the resolver reads
ResolverRegs ==
    { a @@ b @@ c @@ d @@ e @@ f @@ g :
        a \in OptField("participant", { EmptyMap, InlineDoc }),
        b \in OptField("participant_id", { <<>>, K1, K2 }),
        c \in OptField("user_id", { <<>>, K1, K2 }),
        d \in OptField("uid", { <<>>, K1, K2 }),
        e \in OptField("participant_email", { E1, E2 }),
        f \in OptField("email", { E1, E2 }),
        g \in OptField("user_email", { E1, E2 }) }

PartDoc(id, email) == [name |-> << "P" >> \o Tail(id), email |-> email, phone |-> << "5" >>]

UserDoc(id, email) == [name |-> << "u" >> \o Tail(id), email |-> email]

PartStores ==
    UNION { { [k \in S |-> PartDoc(k, em[k])] : em \in [S -> { E1, E2 }] } :
            S \in SUBSET { K1, K2 } }

UserStores ==
    UNION { { [k \in S |-> UserDoc(k, em[k])] : em \in [S -> { E1, E2 }] } :
            S \in SUBSET { K1, K2 } }

InitResolve ==
    /\ participants \in PartStores
    /\ users \in UserStores
    /\ events = EmptyMap
    /\ departments = EmptyMap
    /\ registrations = EmptyMap
    /\ installed = {}
    /\ now = 0
    /\ reqs = [r \in Requests |-> IdleReq]
    /\ resp = NoResp

\* One call of the resolver
Resolve ==
    /\ resp = NoResp
    /\ \E reg_data \in ResolverRegs :
          resp' = [handler |-> "resolve", status |-> 200, reg |-> reg_data,
                   result |-> ResolveParticipant(reg_data, participants, users)]
    /\ UNCHANGED <<store, installed, now, reqs>>

NextResolve == Resolve

SpecResolve == InitResolve /\ [][NextResolve]_vars

(***************************************************************************)
(* _gather_participants.  The result is [raised, rows, queries]: queries   *)
(* are the lists of event ids of the `in` filters issued, in order.        *)
(***************************************************************************)
BATCH == 10

Min(a, b) == IF a <= b THEN a ELSE b

\* Variant: no registration skipped
NotPNever(p) == FALSE

\* not p, for the resolver's result p: None, or a dict with no key
NotP(p) == ~p.found \/ DOMAIN p.doc = {}

\* Variant: every id in each query
BatchSliceAll(event_ids, i) == event_ids

\* event_ids[i:i+BATCH]
BatchSlice(event_ids, i) == SubSeq(event_ids, i + 1, Min(i + BATCH, Len(event_ids)))

\* The ids of a stream's documents whose field has the value, in stream order
RECURSIVE WhereEq(_, _, _, _)
WhereEq(coll, ids, fld, value) ==
    IF ids = <<>> THEN <<>>
    ELSE (IF Get(coll[Head(ids)], fld, None) = value THEN << Head(ids) >> ELSE <<>>)
         \o WhereEq(coll, Tail(ids), fld, value)

\* where('event_id', 'in', batch_ids).stream()
RECURSIVE WhereIn(_, _, _)
WhereIn(regs, ids, batch_ids) ==
    IF ids = <<>> THEN <<>>
    ELSE (IF \E i \in 1..Len(batch_ids) :
                Get(regs[Head(ids)], "event_id", None) = batch_ids[i]
          THEN << Head(ids) >> ELSE <<>>)
         \o WhereIn(regs, Tail(ids), batch_ids)

\* The row of lines 444-455
GatherRow(p, reg_data, evs) ==
    LET ev_id   == Get(reg_data, "event_id", None)
        ev_data == IF ev_id \in DOMAIN evs THEN evs[ev_id] ELSE EmptyMap
    IN  [name |-> Get(p, "name", None),
         email |-> Get(p, "email", None),
         phone |-> Get(p, "phone", None),
         college |-> Get(p, "college", None),
         branch |-> Get(p, "branch", None),
         year |-> Get(p, "year", None),
         event_name |-> Get(ev_data, "name", None),
         dept_name |-> PyOr(PyOr(Get(ev_data, "department", None),
                                 Get(ev_data, "dept_id", None)), <<>>),
         event_id |-> ev_id,
         transaction_id |-> Get(reg_data, "transaction_id", None)]

\* The loop of lines 437-455 over one query's registrations
RECURSIVE GatherRegs(_, _, _, _, _, _)
GatherRegs(reg_ids, regs, evs, parts, usrs, acc) ==
    IF reg_ids = <<>> \/ acc.raised THEN acc
    ELSE LET reg_data == regs[Head(reg_ids)]
             p == ResolveParticipant(reg_data, parts, usrs)
         IN  GatherRegs(Tail(reg_ids), regs, evs, parts, usrs,
                 IF NotP(p) THEN acc
                 ELSE IF ~p.found THEN [acc EXCEPT !.raised = TRUE]
                 ELSE [acc EXCEPT !.rows = Append(@, GatherRow(p.doc, reg_data, evs))])

\* The loop of lines 434-455 over the batches, from index i
RECURSIVE GatherBatches(_, _, _, _, _, _, _)
GatherBatches(event_ids, i, regs, evs, parts, usrs, acc) ==
    IF i >= Len(event_ids) \/ acc.raised THEN acc
    ELSE LET batch_ids == BatchSlice(event_ids, i)
             asked == [acc EXCEPT !.queries = Append(@, batch_ids)]
         IN  GatherBatches(event_ids, i + BATCH, regs, evs, parts, usrs,
                 GatherRegs(WhereIn(regs, Stream(regs), batch_ids),
                            regs, evs, parts, usrs, asked))

\* Lines 415-427: the event ids of the department, or the one event asked for
GatherEventIds(dept_id, event_id, evs) ==
    IF Truthy(event_id)
    THEN (IF event_id \in DOMAIN evs THEN << event_id >> ELSE <<>>)
    ELSE WhereEq(evs, Stream(evs), "department", dept_id)

NoRows == [raised |-> FALSE, rows |-> <<>>, queries |-> <<>>]

GatherParticipants(dept_id, event_id, evs, regs, parts, usrs) ==
    IF ~Truthy(dept_id) THEN NoRows
    ELSE GatherBatches(GatherEventIds(dept_id, event_id, evs), 0,
                       regs, evs, parts, usrs, NoRows)

(***************************************************************************)
(* _gather_participants over departments of 0..MaxDeptEvents events.       *)
(***************************************************************************)
D1 == << "d", "1" >>
D2 == << "d", "2" >>

\* Events 1..n of department D1 and event n+1 of department D2
GatherEvents(n) ==
    [id \in { Str(i) : i \in 1..(n + 1) } |->
        EventDoc(ParseInt(id).val,
                 [dept_id |-> IF ParseInt(id).val <= n THEN D1 ELSE D2,
                  name |-> << "e" >> \o id, status |-> 1],
                 << "q" >>, 0)]

\* How a registration names its participant
RegIdentities ==
    { "participant" :> InlineDoc,
      "participant_id" :> K1,
      "participant_id" :> K2 }

\* The registration documents a store may hold
GatherRegDocs ==
    { ident @@ ("event_id" :> ev) :
        ident \in RegIdentities, ev \in { <<"1">>, <<"1", "1">>, <<"z">> } }

RegId(i) == << "r" >> \o Str(i)

\* Registration i with its own transaction id
WithTransaction(doc, i) == doc @@ ("transaction_id" :> (<< "t" >> \o Str(i)))

InitGather ==
    /\ \E n \in 0..MaxDeptEvents : events = GatherEvents(n)
    /\ \E k \in 0..MaxRegs : \E docs \in [1..k -> GatherRegDocs] :
          registrations = [id \in { RegId(i) : i \in 1..k } |->
                              WithTransaction(docs[ParseInt(Tail(id)).val],
                                              ParseInt(Tail(id)).val)]
    /\ departments = SeedDepartments
    /\ participants = [k \in { K1 } |-> PartDoc(K1, E1)]
    /\ users = EmptyMap
    /\ installed = {}
    /\ now = 0
    /\ reqs = [r \in Requests |-> IdleReq]
    /\ resp = NoResp

\* One call of _gather_participants
Gather ==
    /\ resp = NoResp
    /\ \E dept_id \in { D1, D2, <<>> }, event_id \in { None, <<"1">> } :
          LET g == GatherParticipants(dept_id, event_id, events, registrations,
                                      participants, users)
          IN  resp' = [handler |-> "gather",
                       status |-> IF g.raised THEN 500 ELSE 200,
                       dept_id |-> dept_id, event_id |-> event_id,
                       rows |-> g.rows, queries |-> g.queries]
    /\ UNCHANGED <<store, installed, now, reqs>>

NextGather == Gather

SpecGather == InitGather /\ [][NextGather]_vars

(***************************************************************************)
(* sorted() over rows keyed by tuples of strings and None.                 *)
(***************************************************************************)
\* a < b for two tuples of the same length: "lt", "ge", or "err" when the
\* first components that differ are None and a string (TypeError)
RECURSIVE TupleCmp(_, _)
TupleCmp(a, b) ==
    IF a = <<>> THEN "ge"
    ELSE IF Head(a) = Head(b) THEN TupleCmp(Tail(a), Tail(b))
    ELSE IF Head(a) = None \/ Head(b) = None THEN "err"
    ELSE IF StrLess(Head(a), Head(b)) THEN "lt"
    ELSE "ge"

\* The sort key of a listing row: r.get('dept_name', ''), ...
SortKey(r, by_event) ==
    IF by_event
    THEN << Get(r, "dept_name", <<>>), Get(r, "event_name", <<>>), Get(r, "name", <<>>) >>
    ELSE << Get(r, "dept_name", <<>>), Get(r, "name", <<>>) >>

\* The sorted rows with one more row, after the rows that are not above it
RECURSIVE InsertRow(_, _, _)
InsertRow(rows, r, by_event) ==
    IF rows = <<>> THEN << r >>
    ELSE IF TupleCmp(SortKey(r, by_event), SortKey(Head(rows), by_event)) = "lt"
         THEN << r >> \o rows
         ELSE << Head(rows) >> \o InsertRow(Tail(rows), r, by_event)

RECURSIVE StableSort(_, _, _)
StableSort(rows, acc, by_event) ==
    IF rows = <<>> THEN acc
    ELSE StableSort(Tail(rows), InsertRow(acc, Head(rows), by_event), by_event)

\* sorted(rows, key=...): a sort has to compare two rows whose keys differ
\* first in a None and a string, and that comparison raises TypeError
PySorted(rows, by_event) ==
    IF \E i \in 1..Len(rows), j \in 1..Len(rows) :
          TupleCmp(SortKey(rows[i], by_event), SortKey(rows[j], by_event)) = "err"
    THEN [raised |-> TRUE, rows |-> <<>>]
    ELSE [raised |-> FALSE, rows |-> StableSort(rows, <<>>, by_event)]

(***************************************************************************)
(* view_participants.                                                      *)
(***************************************************************************)
\* The name of department dept_id, None when there is no such document
DeptNameOf(dept_id) ==
    IF Truthy(dept_id) /\ dept_id \in DOMAIN departments
    THEN Get(departments[dept_id], "name", None)
    ELSE None

\* The row of lines 375-386
ViewRow(p) ==
    [name |-> Get(p, "name", None),
     email |-> Get(p, "email", None),
     phone |-> Get(p, "phone", None),
     college |-> Get(p, "college", None),
     branch |-> Get(p, "branch/Class", None),
     year |-> Get(p, "year", None),
     event_name |-> PyOr(Get(p, "event", None), <<>>),
     dept_name |-> PyOr(Get(p, "department", None), <<>>),
     event_id |-> <<>>,
     transaction_id |-> PyOr(Get(p, "transactionId", None), Get(p, "transaction_id", None))]

\* The loop of lines 365-386
RECURSIVE ViewRows(_, _, _)
ViewRows(ids, selected_dept_name, selected_event_id) ==
    IF ids = <<>> THEN <<>>
    ELSE LET r == ViewRow(participants[Head(ids)])
             skip == \/ Truthy(selected_dept_name) /\ r.dept_name # selected_dept_name
                     \/ Truthy(selected_event_id) /\ r.event_name # selected_event_id
         IN  (IF skip THEN <<>> ELSE << r >>)
             \o ViewRows(Tail(ids), selected_dept_name, selected_event_id)

\* Lines 394-399: the names of the events offered for selection
EventsForSelect(selected_dept_id) ==
    LET ids == IF Truthy(selected_dept_id)
               THEN WhereEq(events, Stream(events), "department", selected_dept_id)
               ELSE Stream(events)
    IN  [i \in 1..Len(ids) |-> Get(events[ids[i]], "name", None)]

ServerError(handler) == [handler |-> handler, status |-> 500]

\* GET /view_participants?dept_id=&event_id=
ViewParticipants ==
    /\ resp = NoResp
    /\ \E selected_dept_id \in { None, D1, D2 }, selected_event_id \in { None, << "e", "1" >> } :
          LET listed == ViewRows(Stream(participants), DeptNameOf(selected_dept_id),
                                 selected_event_id)
              sorted == PySorted(listed, Truthy(selected_event_id))
          IN  resp' = IF \/ \E d \in DOMAIN departments : "name" \notin DOMAIN departments[d]
                         \/ sorted.raised
                      THEN ServerError("view_participants")
                      ELSE [handler |-> "view_participants", status |-> 200,
                            dept_id |-> selected_dept_id, event_id |-> selected_event_id,
                            participants |-> sorted.rows,
                            events_for_select |-> EventsForSelect(selected_dept_id)]
    /\ UNCHANGED <<store, installed, now, reqs>>

(***************************************************************************)
(* export_participants.                                                    *)
(***************************************************************************)
ValueWord == << "v", "a", "l", "u", "e" >>

IsAlnum(c) == IsDigit(c) \/ IsLowerLetter(c)

\* re.sub(r'[^a-z0-9]+', '_', s): prev tells whether the character before
\* s was replaced
RECURSIVE SubRuns(_, _)
SubRuns(s, prev) ==
    IF s = <<>> THEN <<>>
    ELSE IF IsAlnum(Head(s)) THEN << Head(s) >> \o SubRuns(Tail(s), FALSE)
    ELSE (IF prev THEN <<>> ELSE << "_" >>) \o SubRuns(Tail(s), TRUE)

RECURSIVE LStripUnderscore(_)
LStripUnderscore(s) ==
    IF s # <<>> /\ Head(s) = "_" THEN LStripUnderscore(Tail(s)) ELSE s

RECURSIVE RStripUnderscore(_)
RStripUnderscore(s) ==
    IF s # <<>> /\ s[Len(s)] = "_"
    THEN RStripUnderscore(SubSeq(s, 1, Len(s) - 1))
    ELSE s

\* Variant: _sanitize without s.lower()
SanitizeNoLower(s) ==
    IF ~Truthy(s) THEN <<>>
    ELSE LET t == RStripUnderscore(LStripUnderscore(SubRuns(s, FALSE)))
         IN  IF t = <<>> THEN ValueWord ELSE t

\* _sanitize
Sanitize(s) ==
    IF ~Truthy(s) THEN <<>>
    ELSE LET t == RStripUnderscore(LStripUnderscore(SubRuns(Lower(s), FALSE)))
         IN  IF t = <<>> THEN ValueWord ELSE t

XLSX == << "x", "l", "s", "x" >>
PDF == << "p", "d", "f" >>

\* request.args.get('format', 'xlsx').lower()
\* Variant: the format compared as given, without .lower()
ExportFmtAsGiven(format) == IF format = None THEN XLSX ELSE format

ExportFmt(format) == IF format = None THEN XLSX ELSE Lower(format)

\* Lines 487-496: the event's name when event_id is a document id, else event_id
ExportEventName(event_id) ==
    IF ~Truthy(event_id) THEN None
    ELSE IF event_id \in DOMAIN events THEN Get(events[event_id], "name", None)
    ELSE event_id

\* The row of lines 507-517
ExportRow(p) ==
    [name |-> Get(p, "name", <<>>),
     email |-> Get(p, "email", <<>>),
     phone |-> Get(p, "phone", <<>>),
     college |-> Get(p, "college", <<>>),
     branch |-> Get(p, "branch", <<>>),
     year |-> Get(p, "year", <<>>),
     event_name |-> Get(p, "event", <<>>),
     dept_name |-> Get(p, "department", <<>>),
     transaction_id |-> PyOr(Get(p, "transactionId", None), Get(p, "transaction_id", <<>>))]

\* Lines 499-517: the rows of the participants the two where() filters keep
RECURSIVE ExportRows(_, _, _)
ExportRows(ids, dept_name, event_name) ==
    IF ids = <<>> THEN <<>>
    ELSE LET p == participants[Head(ids)]
             keep == /\ Truthy(dept_name) => Get(p, "department", None) = dept_name
                     /\ Truthy(event_name) => Get(p, "event", None) = event_name
         IN  (IF keep THEN << ExportRow(p) >> ELSE <<>>)
             \o ExportRows(Tail(ids), dept_name, event_name)

\* tantra_{department}_{event}
BaseFilename(dept_name, event_name) ==
    << "t", "a", "n", "t", "r", "a", "_" >>
    \o (IF Truthy(dept_name) THEN Sanitize(dept_name)
        ELSE << "a", "l", "l", "_", "d", "e", "p", "a", "r", "t", "m", "e", "n", "t", "s" >>)
    \o << "_" >>
    \o (IF Truthy(event_name) THEN Sanitize(event_name)
        ELSE << "a", "l", "l", "_", "e", "v", "e", "n", "t", "s" >>)

TextResponse(status, format) ==
    [handler |-> "export_participants", status |-> status, kind |-> "text",
     format |-> format]

FileResponse(format, fmt, filename, rows) ==
    [handler |-> "export_participants", status |-> 200, kind |-> "attachment",
     format |-> format, filename |-> filename \o << "." >> \o fmt,
     mimetype |-> IF fmt = XLSX
                  THEN "application/vnd.openxmlformats-officedocument.spreadsheetml.sheet"
                  ELSE "application/pdf",
     rows |-> rows]

\* Lines 529-567: the response for the format asked, over the sorted rows
ExportResponse(format, fmt, filename, rows) ==
    IF fmt = XLSX
    THEN (IF "pandas" \in installed THEN FileResponse(format, fmt, filename, rows)
          ELSE TextResponse(500, format))
    ELSE IF fmt = PDF
    THEN (IF "reportlab" \in installed THEN FileResponse(format, fmt, filename, rows)
          ELSE TextResponse(500, format))
    ELSE TextResponse(400, format)

\* The values of the format parameter tried; None: the parameter is absent
ExportFormats ==
    { None, << "X", "L", "S", "X" >>, << "P", "d", "f" >>, PDF, << "c", "s", "v" >> }

\* GET /export_participants?dept_id=&event_id=&format=
ExportParticipants ==
    /\ resp = NoResp
    /\ \E dept_id \in { None, D1 }, event_id \in { None, << "e", "1" >>, << "1" >> },
          format \in ExportFormats :
          LET dept_name  == DeptNameOf(dept_id)
              event_name == ExportEventName(event_id)
              sorted == PySorted(ExportRows(Stream(participants), dept_name, event_name),
                                 TRUE)
          IN  resp' = IF sorted.raised THEN ServerError("export_participants")
                      ELSE ExportResponse(format, ExportFmt(format),
                                          BaseFilename(dept_name, event_name),
                                          sorted.rows)
                           @@ [dept_id |-> dept_id, event_id |-> event_id]
    /\ UNCHANGED <<store, installed, now, reqs>>

(***************************************************************************)
(* The listings over every store of up to MaxParts participants.           *)
(***************************************************************************)
CS == << "C", "S" >>

\* Participant documents: each of name, department and event present or not
ListedDocs ==
    { a @@ b @@ c :
        a \in OptField("name", { << "A" >>, << "B" >> }),
        b \in OptField("department", { CS, << "D" >> }),
        c \in OptField("event", { << "e", "1" >> }) }

PartId(i) == << "p" >> \o Str(i)

\* The participants collections of at most n documents of docs
PartCollections(docs, n) ==
    UNION { { [id \in { PartId(i) : i \in 1..k } |-> f[ParseInt(Tail(id)).val]] :
              f \in [1..k -> docs] } : k \in 0..n }

ListingEvents ==
    [id \in { << "1" >> } |->
        EventDoc(1, [dept_id |-> D1, name |-> << "e", "1" >>, status |-> 1], << "q" >>, 0)]

Libraries == { "pandas", "reportlab" }

InitListing ==
    /\ participants \in PartCollections(ListedDocs, MaxParts)
    /\ departments = SeedDepartments
    /\ events = ListingEvents
    /\ users = EmptyMap
    /\ registrations = EmptyMap
    /\ installed = Libraries
    /\ now = 0
    /\ reqs = [r \in Requests |-> IdleReq]
    /\ resp = NoResp

NextListing == ViewParticipants \/ ExportParticipants

SpecListing == InitListing /\ [][NextListing]_vars

(***************************************************************************)
(* The export endpoint over every set of importable libraries.             *)
(***************************************************************************)
ExportDocs ==
    { [name |-> << "A" >>, department |-> CS, event |-> << "e", "1" >>],
      [name |-> << "B" >>, department |-> CS],
      [name |-> << "A" >>] }

InitExport ==
    /\ participants \in PartCollections(ExportDocs, MaxParts)
    /\ installed \in SUBSET Libraries
    /\ departments = SeedDepartments
    /\ events = ListingEvents
    /\ users = EmptyMap
    /\ registrations = EmptyMap
    /\ now = 0
    /\ reqs = [r \in Requests |-> IdleReq]
    /\ resp = NoResp

NextExport == ExportParticipants

SpecExport == InitExport /\ [][NextExport]_vars

(***************************************************************************)
(* _sanitize on every string of up to MaxStrLen characters.                *)
(***************************************************************************)
SanitizeChars == { "a", "B", "1", "_", " ", "&" }

\* One call of _sanitize
SanitizeCall ==
    /\ resp = NoResp
    /\ \E s \in StringsUpTo(SanitizeChars, MaxStrLen) :
          resp' = [handler |-> "_sanitize", status |-> 200, input |-> s,
                   output |-> Sanitize(s)]
    /\ UNCHANGED <<store, installed, now, reqs>>

InitSanitize ==
    /\ participants = EmptyMap
    /\ departments = EmptyMap
    /\ events = EmptyMap
    /\ users = EmptyMap
    /\ registrations = EmptyMap
    /\ installed = {}
    /\ now = 0
    /\ reqs = [r \in Requests |-> IdleReq]
    /\ resp = NoResp

NextSanitize == SanitizeCall

SpecSanitize == InitSanitize /\ [][NextSanitize]_vars

(***************************************************************************)
(* index: the dashboard counts.                                            *)
(***************************************************************************)
\* Variant: the identity stripped but not lower-cased
DashboardKeyNoLower(ident) == Strip(ident)

\* str(ident).strip().lower()
DashboardKey(ident) == Lower(Strip(ident))

\* The loop of lines 97-102
RECURSIVE UniqueParticipants(_, _)
UniqueParticipants(ids, unique_participants) ==
    IF ids = <<>> THEN unique_participants
    ELSE LET p == participants[Head(ids)]
             ident == PyOr(PyOr(Get(p, "email", None), Get(p, "phone", None)), Head(ids))
         IN  UniqueParticipants(Tail(ids),
                 IF Truthy(ident) THEN unique_participants \cup { DashboardKey(ident) }
                 ELSE unique_participants)

\* Lines 106-118
RecentEvents ==
    LET ids == Stream(events)
    IN  [i \in 1..Len(ids) |->
            LET ed  == events[ids[i]]
                did == Get(ed, "department", None)
            IN  [id |-> ids[i], name |-> Get(ed, "name", None), dept_id |-> did,
                 dept_name |-> IF did \in DOMAIN departments
                               THEN Get(departments[did], "name", <<>>)
                               ELSE PyOr(did, <<>>),
                 status |-> Get(ed, "status", 1)]]

\* GET /
Index ==
    /\ resp = NoResp
    /\ resp' = [handler |-> "index", status |-> 200,
                total_departments |-> Cardinality(DOMAIN departments),
                total_events |-> Cardinality(DOMAIN events),
                total_registrations |-> Len(Stream(participants)),
                total_unique_participants |->
                    Cardinality(UniqueParticipants(Stream(participants), {})),
                recent_events |-> RecentEvents]
    /\ UNCHANGED <<store, installed, now, reqs>>

\* Participant documents: email and phone present or not, in several spellings
DashboardDocs ==
    { a @@ b :
        a \in OptField("email", { <<>>, << "a" >>, << "A", " " >>, << " " >>, << "P", "1" >> }),
        b \in OptField("phone", { << "5" >>, << "a" >> }) }

InitDashboard ==
    /\ participants \in PartCollections(DashboardDocs, MaxParts)
    /\ departments = SeedDepartments
    /\ events = ListingEvents
    /\ users = EmptyMap
    /\ registrations = EmptyMap
    /\ installed = {}
    /\ now = 0
    /\ reqs = [r \in Requests |-> IdleReq]
    /\ resp = NoResp

NextDashboard == Index

SpecDashboard == InitDashboard /\ [][NextDashboard]_vars

(***************************************************************************)
(* The handlers that write event documents one request at a time:          *)
(* add_event, toggle_event_status and fix_events, and dept_events, which   *)
(* reads them.  A response carries the request it answers.                 *)
(***************************************************************************)
\* DocumentReference.update(fields) of a document that exists: the fields
\* named are written, the others are kept
UpdateDoc(coll, id, fields) == [coll EXCEPT ![id] = fields @@ coll[id]]

\* The status field an add_event form may carry
StatusInputs == { << "0" >>, << "1" >>, << "2" >>, << "x" >> }

\* request.form of an add_event POST, status as the browser sent it or absent
AdminForms ==
    { [dept_id |-> d, name |-> << "A" >>] @@ s :
        d \in DeptIds, s \in OptField("status", StatusInputs) }

\* status = int(request.form.get('status', '1'))
FormStatus(form) == ParseInt(Get(form, "status", << "1" >>))

\* add_event (POST), whole; int() raising ValueError ends it before any write
AddEventPost ==
    /\ now < MaxAdded
    /\ \E r \in Requests, form \in AdminForms :
          /\ reqs[r].pc = "idle"
          /\ \A q \in Requests : q < r => reqs[q].pc # "idle"
          /\ LET status == FormStatus(form)
                 max_id == MaxId(events)
                 new_id == max_id + 1
                 qr     == PaymentQr(form.dept_id)
                 parsed == [dept_id |-> form.dept_id, name |-> form.name,
                            status |-> status.val]
             IN  IF ~status.ok
                 THEN /\ resp' = [handler |-> "add_event", status |-> 500,
                                  request |-> form]
                      /\ UNCHANGED <<events, now, reqs>>
                 ELSE /\ now' = now + 1
                      /\ events' = SetDoc(events, Str(new_id),
                                          EventDoc(new_id, parsed, qr, now'))
                      /\ reqs' = [reqs EXCEPT ![r] =
                                    [pc |-> "done", form |-> form, max_id |-> max_id,
                                     seen |-> DOMAIN events, qr |-> qr,
                                     new_id |-> new_id, created_at |-> now']]
                      /\ resp' = [handler |-> "add_event", status |-> 302,
                                  request |-> form]
    /\ UNCHANGED <<departments, participants, users, registrations, installed>>

\* new_status = 0 if current == 1 else 1
NewStatus(current) == IF current = 1 THEN 0 ELSE 1

\* The fields toggle_event_status updates
ToggleFields(ev) == [status |-> NewStatus(Get(ev, "status", 1))]

\* event_id of a toggle_event_status form: absent, empty, or an id
ToggleIds == { None, <<>>, << "7" >>, << "8" >>, << "1" >>, << "z" >> }

\* toggle_event_status (POST)
ToggleEventStatus ==
    /\ \E event_id \in ToggleIds :
          /\ resp' = [handler |-> "toggle_event_status", status |-> 302,
                      request |-> [event_id |-> event_id]]
          /\ IF ~Truthy(event_id) \/ event_id \notin DOMAIN events
             THEN UNCHANGED events
             ELSE events' = UpdateDoc(events, event_id, ToggleFields(events[event_id]))
    /\ UNCHANGED <<departments, participants, users, registrations, installed,
                   now, reqs>>

\* Variant: the department the listings filter on rewritten
FixFieldsDepartment(new_dept) == [department |-> new_dept]

\* The fields a fix_events POST updates
FixFields(new_dept) == [dept_id |-> new_dept]

\* The events whose dept_id is missing or names no department
RECURSIVE Problematic(_, _)
Problematic(evs, ids) ==
    IF ids = <<>> THEN <<>>
    ELSE LET ed  == evs[Head(ids)]
             did == Get(ed, "dept_id", None)
         IN  (IF ~Truthy(did) \/ did \notin DOMAIN departments
              THEN << [id |-> Head(ids), name |-> Get(ed, "name", None),
                       date |-> Get(ed, "date", None), dept_id |-> did] >>
              ELSE <<>>)
             \o Problematic(evs, Tail(ids))

\* dept_list: (id, name) of every department
RECURSIVE DeptList(_)
DeptList(ids) ==
    IF ids = <<>> THEN <<>>
    ELSE << << Head(ids), Get(departments[Head(ids)], "name", None) >> >>
         \o DeptList(Tail(ids))

FixEventIds == { None, << "7" >>, << "8" >>, << "1" >>, << "z" >> }

FixDeptIds == { None, D1, D2 }

\* The requests fix_events answers: a GET, or a POST with its form
FixRequests ==
    { [method |-> "GET", event_id |-> None, dept_id |-> None] }
    \cup [method : { "POST" }, event_id : FixEventIds, dept_id : FixDeptIds]

\* fix_events (GET or POST); update() of a document that does not exist
\* raises NotFound, which ends the request
FixEvents ==
    /\ \E request \in FixRequests :
          LET event_id == request.event_id
              new_dept == request.dept_id
              updates  == request.method = "POST" /\ Truthy(event_id) /\ Truthy(new_dept)
          IN  IF updates /\ event_id \notin DOMAIN events
              THEN /\ resp' = [handler |-> "fix_events", status |-> 500,
                               request |-> request]
                   /\ UNCHANGED events
              ELSE /\ events' = IF updates
                                THEN UpdateDoc(events, event_id, FixFields(new_dept))
                                ELSE events
                   /\ resp' = [handler |-> "fix_events", status |-> 200,
                               request |-> request,
                               events |-> Problematic(events', Stream(events')),
                               departments |-> DeptList(Stream(departments)),
                               message |-> IF updates
                                           THEN "Updated event department."
                                           ELSE ""]
    /\ UNCHANGED <<departments, participants, users, registrations, installed,
                   now, reqs>>

\* The JSON rows of dept_events
RECURSIVE DeptEventRows(_)
DeptEventRows(ids) ==
    IF ids = <<>> THEN <<>>
    ELSE LET ed == events[Head(ids)]
         IN  << [id |-> Head(ids), name |-> Get(ed, "name", None),
                 date |-> Get(ed, "date", None), status |-> Get(ed, "status", 1),
                 image_url |-> Get(ed, "image_url", <<>>),
                 venue |-> Get(ed, "venue", <<>>),
                 department |-> Get(ed, "department", <<>>)] >>
             \o DeptEventRows(Tail(ids))

DeptEventsIds == { <<>>, D1, D2, << "z" >> }

\* dept_events (GET)
DeptEvents ==
    /\ \E dept_id \in DeptEventsIds :
          resp' = IF ~Truthy(dept_id)
                  THEN [handler |-> "dept_events", status |-> 200,
                        request |-> [dept_id |-> dept_id], events |-> <<>>]
                  ELSE [handler |-> "dept_events", status |-> 200,
                        request |-> [dept_id |-> dept_id],
                        events |-> DeptEventRows(
                                     WhereEq(events, Stream(events), "department", dept_id)),
                        dept_id |-> dept_id]
    /\ UNCHANGED <<store, installed, now, reqs>>

\* An event document with no status field
LegacyEventNoStatus(dept) == [department |-> dept, name |-> << "L" >>, created_at |-> 0]

\* The events collection before the first request: empty or one older document
AdminSeeds ==
    { EmptyMap, << "7" >> :> LegacyEvent(D1), << "7" >> :> LegacyEventNoStatus(D1) }

InitAdmin ==
    /\ events \in AdminSeeds
    /\ departments = SeedDepartments
    /\ participants = EmptyMap
    /\ users = EmptyMap
    /\ registrations = EmptyMap
    /\ installed = {}
    /\ now = 0
    /\ reqs = [r \in Requests |-> IdleReq]
    /\ resp = NoResp

NextAdmin ==
    \/ AddEventPost
    \/ ToggleEventStatus
    \/ FixEvents
    \/ DeptEvents

SpecAdmin == InitAdmin /\ [][NextAdmin]_vars

(***************************************************************************)
(* Claims about add_event.                                                 *)
(***************************************************************************)
\* Whether the document request r wrote is the one its id holds now
Stored(r) ==
    /\ Str(reqs[r].new_id) \in DOMAIN events
    /\ events[Str(reqs[r].new_id)] =
          EventDoc(reqs[r].new_id, reqs[r].form, reqs[r].qr, reqs[r].created_at)

\* Two finished requests whose scans read the same events collection
Raced(r1, r2) ==
    /\ r1 # r2
    /\ reqs[r1].pc = "done"
    /\ reqs[r2].pc = "done"
    /\ reqs[r1].seen = reqs[r2].seen

\* C1: two add_event requests that both scan the events collection before
\* either writes compute the same id, write the same document (one the scan
\* did not see), and after both have finished at most one of the two events
\* is in the store.
C1_RaceCollides ==
    \A r1 \in Requests, r2 \in Requests :
        Raced(r1, r2) =>
            /\ reqs[r1].new_id = reqs[r2].new_id
            /\ reqs[r1].new_id = reqs[r1].max_id + 1
            /\ Str(reqs[r1].new_id) \notin reqs[r1].seen
            /\ Str(reqs[r1].new_id) \in DOMAIN events
            /\ ~(Stored(r1) /\ Stored(r2))

\* Two raced requests for different events, the second write the only survivor
C1_Witness ==
    /\ Raced(1, 2)
    /\ reqs[1].form.name # reqs[2].form.name
    /\ reqs[1].created_at < reqs[2].created_at
    /\ Stored(2)
    /\ ~Stored(1)
    /\ Cardinality(DOMAIN events) = Cardinality(reqs[1].seen) + 1

\* The ids int() reads as a number
NumericIds(S) == { id \in S : ParseInt(id).ok }

\* The largest numeric id of S, 0 when it has none
LargestNumeric(S) ==
    IF NumericIds(S) = {} THEN 0
    ELSE CHOOSE n \in { ParseInt(id).val : id \in NumericIds(S) } :
            \A id \in NumericIds(S) : ParseInt(id).val <= n

\* What one creation does to the events collection: one new document, whose
\* id is the decimal form of 1 + the largest numeric id, above every numeric
\* id there was, and every document there was is as it was.
CreatesFreshId ==
    \E nid \in (DOMAIN events') \ (DOMAIN events) :
        /\ DOMAIN events' = (DOMAIN events) \cup {nid}
        /\ \A id \in DOMAIN events : events'[id] = events[id]
        /\ ParseInt(nid).ok
        /\ ParseInt(nid).val = 1 + LargestNumeric(DOMAIN events)
        /\ events'[nid].id = ParseInt(nid).val
        /\ \A id \in NumericIds(DOMAIN events) : ParseInt(id).val < ParseInt(nid).val

\* C2: with one add_event at a time, every creation assigns 1 + the largest
\* numeric document id (non-numeric ids ignored, 1 when there is none), an id
\* above every numeric id there is, and overwrites no document; so after any
\* sequence of creations every created event has a document of its own.
C2_SerialUniqueIds ==
    /\ [](Cardinality({ id \in DOMAIN events : events[id].created_at > 0 }) = now)
    /\ [][now' # now => CreatesFreshId]_vars

\* Two creations after a store holding a non-numeric id and a zero-padded one
C2_Witness ==
    /\ DOMAIN events = { <<"a">>, <<"0", "7">>, <<"8">>, <<"9">> }
    /\ events[<<"8">>].created_at = 1
    /\ events[<<"9">>].created_at = 2

(***************************************************************************)
(* Claims about the resolver.                                              *)
(***************************************************************************)
Resolved == resp.handler = "resolve"

\* reg without field k
Without(reg, k) == [x \in (DOMAIN reg) \ {k} |-> reg[x]]

\* C3 as stated: a record whose participant field is an embedded object, an
\* object with no fields included, resolves to that object with no lookup.
C3_AnyEmbeddedVerbatim ==
    (Resolved /\ "participant" \in DOMAIN resp.reg) =>
        /\ resp.result.found
        /\ resp.result.doc = resp.reg["participant"]
        /\ resp.result.lookups = <<>>

\* C3, amended: a record whose participant field is an embedded object with
\* at least one field resolves to that object, unchanged and with no lookup
\* in participants or users, whatever id or email fields the record carries;
\* an embedded object with no fields is resolved as if the field were absent.
C3_NonEmptyEmbeddedVerbatim ==
    (Resolved /\ "participant" \in DOMAIN resp.reg) =>
        IF DOMAIN resp.reg["participant"] # {}
        THEN /\ resp.result.found
             /\ resp.result.doc = resp.reg["participant"]
             /\ resp.result.lookups = <<>>
        ELSE resp.result =
                ResolveParticipant(Without(resp.reg, "participant"), participants, users)

\* An embedded object returned although the record's ids and email match documents
C3_Witness ==
    /\ Resolved
    /\ "participant" \in DOMAIN resp.reg
    /\ resp.reg["participant"] = InlineDoc
    /\ "participant_id" \in DOMAIN resp.reg
    /\ resp.reg["participant_id"] \in DOMAIN participants
    /\ "email" \in DOMAIN resp.reg
    /\ resp.reg["email"] = E1
    /\ \E k \in DOMAIN users : users[k].email = E1
    /\ resp.result.doc = InlineDoc
    /\ resp.result.lookups = <<>>

\* The first of the fields that the record has with a non-empty value, else None
FirstPresent(reg, fields) ==
    LET have == { i \in 1..Len(fields) : Truthy(Get(reg, fields[i], None)) }
    IN  IF have = {} THEN None
        ELSE reg[fields[CHOOSE i \in have : \A j \in have : i <= j]]

\* The documents of coll whose email is e
WithEmail(coll, e) == { k \in DOMAIN coll : Get(coll[k], "email", None) = e }

\* What the fixed order of the claim gives for a record without embedded participant
ExpectedResolution(reg) ==
    LET pid   == FirstPresent(reg, << "participant_id", "user_id", "uid" >>)
        email == FirstPresent(reg, << "participant_email", "email", "user_email" >>)
    IN  IF pid # None /\ pid \in DOMAIN participants
            THEN [found |-> TRUE, doc |-> participants[pid]]
        ELSE IF pid # None /\ pid \in DOMAIN users
            THEN [found |-> TRUE, doc |-> users[pid]]
        ELSE IF email # None /\ WithEmail(participants, email) # {}
            THEN [found |-> TRUE, doc |-> participants[MinStr(WithEmail(participants, email))]]
        ELSE IF email # None /\ WithEmail(users, email) # {}
            THEN [found |-> TRUE, doc |-> users[MinStr(WithEmail(users, email))]]
        ELSE [found |-> FALSE, doc |-> EmptyMap]

\* C4: without an embedded participant the resolver takes the first present
\* (non-empty) field of participant_id, user_id, uid and returns the
\* Participants document of that id, else the Users document of that id; else
\* the first present field of participant_email, email, user_email and the
\* first Participants document with that email, else the first such Users
\* document; a record with only an email field that exactly one Participant
\* has resolves to that participant's document.
C4_ResolutionOrder ==
    (Resolved /\ "participant" \notin DOMAIN resp.reg) =>
        /\ resp.result.found = ExpectedResolution(resp.reg).found
        /\ resp.result.doc = ExpectedResolution(resp.reg).doc
        /\ \A k \in DOMAIN participants :
              ( /\ DOMAIN resp.reg = { "email" }
                /\ WithEmail(participants, resp.reg["email"]) = { k } )
              => (resp.result.found /\ resp.result.doc = participants[k])

\* An id that is in neither collection, then an email only a Users document has
C4_Witness ==
    /\ Resolved
    /\ DOMAIN resp.reg = { "participant_id", "user_id", "email", "user_email" }
    /\ resp.reg["participant_id"] = <<>>
    /\ resp.reg["user_id"] = K2
    /\ K2 \notin DOMAIN participants
    /\ K2 \notin DOMAIN users
    /\ resp.reg["email"] = E2
    /\ resp.reg["user_email"] = E1
    /\ WithEmail(participants, E2) = {}
    /\ K1 \in DOMAIN users
    /\ resp.result.found
    /\ resp.result.doc = UserDoc(K1, E2)
    /\ Len(resp.result.lookups) = 4

(***************************************************************************)
(* Claims about _gather_participants.                                      *)
(***************************************************************************)
Gathered == resp.handler = "gather"

\* Whether the registration resolves to a participant the gatherer keeps
Resolvable(reg_data) == ~NotP(ResolveParticipant(reg_data, participants, users))

\* The event ids the `in` filters asked for
AskedIds == UNION { { resp.queries[i][j] : j \in 1..Len(resp.queries[i]) } :
                    i \in 1..Len(resp.queries) }

\* The rows the same call returns over another registrations collection
RowsOver(regs) ==
    GatherParticipants(resp.dept_id, resp.event_id, events, regs,
                       participants, users).rows

\* The registrations without document id
RegsWithout(id) == [x \in (DOMAIN registrations) \ {id} |-> registrations[x]]

\* The registrations with document id given an embedded participant
RegsResolving(id) ==
    [registrations EXCEPT ![id] = ("participant" :> InlineDoc) @@ registrations[id]]

\* C5: a registration whose identity fields match no document of Participants
\* or Users is left out and no error is raised: the rows are those returned
\* without that registration, and there is exactly one row fewer than when
\* that registration resolves.
C5_UnresolvedSkipped ==
    Gathered =>
        /\ resp.status = 200
        /\ \A id \in DOMAIN registrations :
              ~Resolvable(registrations[id]) =>
                 /\ resp.rows = RowsOver(RegsWithout(id))
                 /\ registrations[id].event_id \in AskedIds =>
                       Len(RowsOver(RegsResolving(id))) = Len(resp.rows) + 1

\* A listing that drops an unresolvable registration of event 11 and keeps
\* the resolvable one of event 1
C5_Witness ==
    /\ Gathered
    /\ resp.dept_id = D1
    /\ resp.event_id = None
    /\ DOMAIN registrations = { RegId(1), RegId(2) }
    /\ registrations[RegId(1)].event_id = << "1", "1" >>
    /\ "participant_id" \in DOMAIN registrations[RegId(1)]
    /\ registrations[RegId(1)]["participant_id"] = K2
    /\ registrations[RegId(2)].event_id = << "1" >>
    /\ Resolvable(registrations[RegId(2)])
    /\ << "1", "1" >> \in AskedIds
    /\ Len(resp.rows) = 1
    /\ resp.rows[1].transaction_id = << "t", "2" >>

\* The events of the department asked for
DeptEventIds == { e \in DOMAIN events : events[e].department = resp.dept_id }

\* The registrations a listing of the department has a row for
ListedRegs ==
    { id \in DOMAIN registrations :
        /\ registrations[id].event_id \in DeptEventIds
        /\ Resolvable(registrations[id]) }

\* C6: for a department of n events and no event selected, exactly
\* ceil(n/10) `in` queries are issued, each of 1..10 event ids, no id in two
\* queries or twice in one, every event id of the department in one of them
\* (15 ids: a query of 10 and a query of 5); the rows are those of the
\* resolvable registrations of the department's events, one row each.
C6_BatchedQueries ==
    (Gathered /\ Truthy(resp.dept_id) /\ ~Truthy(resp.event_id)) =>
        LET n == Cardinality(DeptEventIds)
            q == resp.queries
        IN  /\ Len(q) = (n + BATCH - 1) \div BATCH
            /\ \A i \in 1..Len(q) : Len(q[i]) >= 1 /\ Len(q[i]) <= BATCH
            /\ \A i \in 1..Len(q) : \A j \in 1..Len(q[i]) :
                  \A k \in 1..Len(q) : \A l \in 1..Len(q[k]) :
                     q[i][j] = q[k][l] => (i = k /\ j = l)
            /\ AskedIds = DeptEventIds
            /\ n = 15 => (Len(q) = 2 /\ Len(q[1]) = 10 /\ Len(q[2]) = 5)
            /\ Len(resp.rows) = Cardinality(ListedRegs)
            /\ { resp.rows[i].transaction_id : i \in 1..Len(resp.rows) }
                  = { registrations[id].transaction_id : id \in ListedRegs }
            /\ \A i \in 1..Len(resp.rows) : resp.rows[i].event_id \in DeptEventIds

\* Fifteen events asked for in a query of ten and a query of five, with a row
\* from each
C6_Witness ==
    /\ Gathered
    /\ resp.dept_id = D1
    /\ resp.event_id = None
    /\ Cardinality(DeptEventIds) = 15
    /\ Len(resp.queries) = 2
    /\ Len(resp.queries[1]) = 10
    /\ Len(resp.queries[2]) = 5
    /\ Len(resp.rows) = 2
    /\ resp.rows[1].event_id # resp.rows[2].event_id

(***************************************************************************)
(* Claims about the participant listings.                                  *)
(***************************************************************************)
Listed == resp.handler \in { "view_participants", "export_participants" }

\* The rows a listing response carries
ListingRows ==
    IF resp.status # 200 THEN <<>>
    ELSE IF resp.handler = "view_participants" THEN resp.participants
    ELSE resp.rows

\* A missing value compared as the empty string
Blank(v) == IF v = None THEN <<>> ELSE v

\* The sort key of the claim: with the event name when an event was selected
ClaimedKey(r, by_event) ==
    IF by_event
    THEN << Blank(r.dept_name), Blank(r.event_name), Blank(r.name) >>
    ELSE << Blank(r.dept_name), Blank(r.name) >>

\* C7: every listing of view_participants and export_participants succeeds,
\* whatever fields the participant documents lack, and is in ascending order
\* of (dept_name, event_name, name) when an event was selected and of
\* (dept_name, name) when none was, a missing value compared as ''.
C7_ListingsSorted ==
    Listed =>
        /\ resp.status # 500
        /\ \A i \in 1..Len(ListingRows), j \in 1..Len(ListingRows) :
              i < j =>
                 TupleCmp(ClaimedKey(ListingRows[j], Truthy(resp.event_id)),
                          ClaimedKey(ListingRows[i], Truthy(resp.event_id))) # "lt"

(***************************************************************************)
(* Claims about _sanitize.                                                 *)
(***************************************************************************)
Sanitized == resp.handler = "_sanitize"

\* The maximal runs of [a-z0-9] of s, in order; cur is the run being read
RECURSIVE Tokens(_, _)
Tokens(s, cur) ==
    IF s = <<>> THEN (IF cur = <<>> THEN <<>> ELSE << cur >>)
    ELSE IF IsAlnum(Head(s)) THEN Tokens(Tail(s), Append(cur, Head(s)))
    ELSE (IF cur = <<>> THEN <<>> ELSE << cur >>) \o Tokens(Tail(s), <<>>)

\* The runs joined by single underscores
RECURSIVE JoinRuns(_)
JoinRuns(ts) ==
    IF ts = <<>> THEN <<>>
    ELSE IF Len(ts) = 1 THEN ts[1]
    ELSE ts[1] \o << "_" >> \o JoinRuns(Tail(ts))

\* The lower-cased input with each run outside [a-z0-9] made one underscore
\* and the underscores at both ends removed, `value` when that is empty
ClaimedSanitized(s) ==
    LET t == JoinRuns(Tokens(Lower(s), <<>>))
    IN  IF t = <<>> THEN ValueWord ELSE t

\* A non-empty string over [a-z0-9_] that has no underscore first, last or
\* next to another
WellFormedPart(t) ==
    /\ t # <<>>
    /\ \A i \in 1..Len(t) : IsAlnum(t[i]) \/ t[i] = "_"
    /\ t[1] # "_"
    /\ t[Len(t)] # "_"
    /\ \A i \in 1..(Len(t) - 1) : ~(t[i] = "_" /\ t[i + 1] = "_")

\* C8 as stated: every input, the empty string included, is mapped to its
\* lower-cased form with runs outside [a-z0-9] made one underscore and the
\* ends trimmed, `value` when that is empty; the output is never empty, well
\* formed, and a fixed point.
C8_SanitizeEveryInput ==
    Sanitized =>
        /\ resp.output = ClaimedSanitized(resp.input)
        /\ WellFormedPart(resp.output)
        /\ Sanitize(resp.output) = resp.output

\* C8, amended: the same for every non-empty input; the empty input is
\* returned as the empty string.
C8_SanitizeNonEmptyInput ==
    Sanitized =>
        IF resp.input = <<>> THEN resp.output = <<>>
        ELSE /\ resp.output = ClaimedSanitized(resp.input)
             /\ WellFormedPart(resp.output)
             /\ Sanitize(resp.output) = resp.output

\* An upper-case letter lowered and a run of two other characters made one underscore
C8_Witness ==
    /\ Sanitized
    /\ resp.input = << "B", "&", " ", "1" >>
    /\ resp.output = << "b", "_", "1" >>

(***************************************************************************)
(* Claims about the export endpoint.                                       *)
(***************************************************************************)
Exported == resp.handler = "export_participants"

\* The format asked for, lower-cased, xlsx when the parameter is absent
AskedFormat == IF resp.format = None THEN XLSX ELSE Lower(resp.format)

IsAttachment ==
    /\ resp.status = 200
    /\ resp.kind = "attachment"
    /\ SubSeq(resp.filename, Len(resp.filename) - Len(AskedFormat) + 1, Len(resp.filename))
          = AskedFormat

NeededLibrary == IF AskedFormat = XLSX THEN "pandas" ELSE "reportlab"

ExportAnswers ==
    Exported =>
        IF AskedFormat \notin { XLSX, PDF } THEN resp.status = 400 /\ resp.kind = "text"
        ELSE IF NeededLibrary \in installed THEN IsAttachment
        ELSE resp.status = 500 /\ resp.kind = "text"

Indexed == resp.handler = "index"

\* email or phone or doc-id of participant id
IdentityOf(id) ==
    LET p == participants[id]
    IN  IF "email" \in DOMAIN p /\ p["email"] # <<>> THEN p["email"]
        ELSE IF "phone" \in DOMAIN p /\ p["phone"] # <<>> THEN p["phone"]
        ELSE id

\* The positions of s that hold no whitespace
Inked(s) == { i \in 1..Len(s) : s[i] # " " }

\* s between its first and its last character that is no whitespace
Core(s) ==
    IF Inked(s) = {} THEN <<>>
    ELSE SubSeq(s, CHOOSE i \in Inked(s) : \A j \in Inked(s) : i <= j,
                   CHOOSE i \in Inked(s) : \A j \in Inked(s) : j <= i)

\* Two characters equal up to letter case
SameLetter(c, d) ==
    \/ c = d
    \/ \E i \in 1..Len(UpperLetters) :
          { c, d } = { UpperLetters[i], LowerLetters[i] }

\* Two identities that differ only in letter case and surrounding whitespace
SameIdentity(s, t) ==
    /\ Len(Core(s)) = Len(Core(t))
    /\ \A i \in 1..Len(Core(s)) : SameLetter(Core(s)[i], Core(t)[i])

\* A set of participants with one member of every identity
Representatives(R) ==
    /\ \A a \in R, b \in R : a # b => ~SameIdentity(IdentityOf(a), IdentityOf(b))
    /\ \A d \in DOMAIN participants :
          \E r \in R : SameIdentity(IdentityOf(d), IdentityOf(r))

\* C10: the unique participant count is the number of distinct values of
\* lower(strip(email or phone or doc-id)) over the participant documents:
\* records whose identities differ only in letter case or surrounding
\* whitespace count once, and the count is at most the registration count.
C10_UniqueCount ==
    Indexed =>
        /\ resp.total_unique_participants =
              Cardinality({ Lower(Strip(IdentityOf(id))) : id \in DOMAIN participants })
        /\ \E R \in SUBSET DOMAIN participants :
              Representatives(R) /\ Cardinality(R) = resp.total_unique_participants
        /\ resp.total_unique_participants <= resp.total_registrations
        /\ resp.total_registrations = Cardinality(DOMAIN participants)

\* Two participants whose emails differ in case and whitespace, counted once
C10_Witness ==
    /\ Indexed
    /\ DOMAIN participants = { PartId(1), PartId(2) }
    /\ "email" \in DOMAIN participants[PartId(1)]
    /\ participants[PartId(1)]["email"] = << "a" >>
    /\ "email" \in DOMAIN participants[PartId(2)]
    /\ participants[PartId(2)]["email"] = << "A", " " >>
    /\ resp.total_registrations = 2
    /\ resp.total_unique_participants = 1

(***************************************************************************)
(* Claims about the handlers that take a department or an event id.        *)
(***************************************************************************)
\* Whether the last handler to answer was handler
Answered(handler) == resp.handler = handler

\* An id that is missing, or that names no document of coll
UnknownId(id, coll) == ~Truthy(id) \/ id \notin DOMAIN coll

\* The last response answers a request whose id is missing or names no
\* document: the event of a toggle or of a reassignment, the department of
\* dept_events
AnswersUnknownId ==
    \/ Answered("toggle_event_status") /\ UnknownId(resp.request.event_id, events)
    \/ /\ Answered("fix_events")
       /\ resp.request.method = "POST"
       /\ UnknownId(resp.request.event_id, events)
    \/ Answered("dept_events") /\ UnknownId(resp.request.dept_id, departments)

\* C11: a handler given an id that is missing or matches no document never
\* raises (its response is not a server error), and the step that answers
\* such a request leaves every collection as it was.
C11_UnknownIdsNeverRaise ==
    /\ [](AnswersUnknownId => resp.status < 500)
    /\ [][AnswersUnknownId' => store' = store]_vars

(***************************************************************************)
(* Claims about the status of an event.                                    *)
(***************************************************************************)
\* The events that store a status
WithStatus(evs) == { e \in DOMAIN evs : "status" \in DOMAIN evs[e] }

\* The step is a toggle_event_status of event e, which stored a status
Toggles(e) ==
    /\ resp'.handler = "toggle_event_status"
    /\ resp'.request.event_id = e
    /\ e \in WithStatus(events)

\* C12: every stored status is 0 or 1, whatever add_event and
\* toggle_event_status requests came before; a toggle writes 0 over 1 and 1
\* over 0, so that a second toggle of the same event writes the status the
\* first one found.
C12_StatusIsZeroOrOne ==
    /\ [](\A e \in WithStatus(events) : events[e]["status"] \in { 0, 1 })
    /\ [][\A e \in DOMAIN events :
            Toggles(e) =>
               /\ events[e]["status"] = 1 => events'[e]["status"] = 0
               /\ events[e]["status"] = 0 => events'[e]["status"] = 1
               /\ NewStatus(events'[e]["status"]) = events[e]["status"]]_vars

(***************************************************************************)
(* Claims about the department of an event.                                *)
(***************************************************************************)
\* The add_event requests that have written their event
Added == { r \in Requests : reqs[r].pc = "done" }

\* The id of the document request r wrote
AddedId(r) == Str(reqs[r].new_id)

\* Every event but e is as it was, and so is every field of e but fld
OnlyFieldWritten(e, fld) ==
    /\ DOMAIN events' = DOMAIN events
    /\ \A x \in DOMAIN events \ { e } : events'[x] = events[x]
    /\ DOMAIN events'[e] \ { fld } = DOMAIN events[e] \ { fld }
    /\ \A k \in DOMAIN events[e] \ { fld } : events'[e][k] = events[e][k]

\* What a step of toggle_event_status or of fix_events may write
WritesOnlyItsField ==
    /\ resp'.handler = "toggle_event_status" =>
          \/ events' = events
          \/ OnlyFieldWritten(resp'.request.event_id, "status")
    /\ resp'.handler = "fix_events" =>
          \/ events' = events
          \/ /\ OnlyFieldWritten(resp'.request.event_id, "dept_id")
             /\ events'[resp'.request.event_id]["dept_id"] = resp'.request.dept_id
    /\ resp'.handler \in { "toggle_event_status", "fix_events", "dept_events" } =>
          <<departments, participants, users, registrations>>' =
          <<departments, participants, users, registrations>>

\* No step removes an event or changes the department of one
DepartmentsStay ==
    \A e \in DOMAIN events :
        /\ e \in DOMAIN events'
        /\ Get(events'[e], "department", None) = Get(events[e], "department", None)

\* The ids of the rows of a dept_events response
RowIds(rows) == { rows[i].id : i \in 1..Len(rows) }

\* An answer of dept_events lists every added event under the department of
\* its form, reassigned or not, and under no other department
ListedUnderOwnDepartment ==
    Answered("dept_events") /\ Truthy(resp.request.dept_id) =>
        \A r \in Added :
            AddedId(r) \in RowIds(resp.events)
            <=> reqs[r].form.dept_id = resp.request.dept_id

\* C13: an added event keeps the department of its form through every later
\* add_event, toggle_event_status and fix_events; a toggle writes status only
\* and a fix_events POST writes dept_id only, both of the one event named,
\* and dept_events goes on listing a reassigned event under the department
\* it was created with.
C13_DepartmentKept ==
    /\ [](\A r \in Added :
            /\ AddedId(r) \in DOMAIN events
            /\ events[AddedId(r)]["department"] = reqs[r].form.dept_id)
    /\ []ListedUnderOwnDepartment
    /\ [][WritesOnlyItsField /\ DepartmentsStay]_vars

\* An event added under d1 without a status, since closed by a toggle and
\* reassigned to d2 by fix_events, in the answer of dept_events for d1
C13_Witness ==
    /\ 1 \in Added
    /\ reqs[1].form.dept_id = D1
    /\ "status" \notin DOMAIN reqs[1].form
    /\ events[AddedId(1)]["status"] = 0
    /\ Get(events[AddedId(1)], "dept_id", None) = D2
    /\ << "7" >> \in DOMAIN events
    /\ Answered("dept_events")
    /\ resp.request.dept_id = D1
    /\ AddedId(1) \in RowIds(resp.events)

====
